---------------------------- MODULE Spec2Model ----------------------------
(***************************************************************************)
(* Image to MIDI converter (src/main.py).                                  *)
(*                                                                         *)
(* main() runs three stages in sequence: extract_hsv_data (Sampler),       *)
(* hsv_to_midi_params (Mapper) and create_midi_from_colors (Sequencer).    *)
(*                                                                         *)
(* Representation of numbers.                                              *)
(*  - Hue is in whole degrees, saturation and value in whole percent.  On  *)
(*    whole inputs the float expressions of hsv_to_midi_params truncate to *)
(*    the same integers as the exact quotients used below.                 *)
(*  - Beats are fixed-point with one decimal digit: the float 0.5 of the   *)
(*    source is the integer 5, so a time t of the model is t/10 beats.     *)
(*  - A pixel of the resized RGBA image carries its alpha channel and the  *)
(*    result of colorsys.rgb_to_hsv in 1/360 turns and 1/100 units, so     *)
(*    that the rescaling h*360, s*100, v*100 yields degrees and percent.   *)
(***************************************************************************)
EXTENDS Integers, Sequences, FiniteSets

(* ------------------------------ bounds -------------------------------- *)

\* width and height of the resized image (target_size, 128 x 128 in the source)
GridW == 2
GridH == 2

\* longest sample sequence handed directly to create_midi_from_colors
MaxLen == 4

(* ------------------------- program constants -------------------------- *)

alpha_threshold == 128
threshold_h == 15
threshold_s == 15
threshold_v == 15
eighth_note == 5
progress_every == 100

\* Python's None for the integer locals, and for prev_hsv
None == -1
NoHsv == << >>

\* a path variable that main() has not assigned yet
Unset == "<unset>"

(* ------------------------------ inputs -------------------------------- *)

\* pixels of the resized image: two around the opacity threshold, one opaque
Pixels ==
  { [a |-> 127, h |-> 10,  s |-> 50, v |-> 50],
    [a |-> 128, h |-> 10,  s |-> 50, v |-> 50],
    [a |-> 255, h |-> 200, s |-> 50, v |-> 50] }

\* HSV triples given to the sequencer
Samples ==
  { <<10, 50, 50>>,     \* base colour
    <<12, 52, 51>>,     \* close to the base colour, maps to another pitch
    <<26, 60, 62>>,     \* close to the second, not to the base: drift
    <<200, 50, 50>>,    \* far in hue
    <<355, 50, 50>>,    \* 345 degrees away from the base, 15 around the circle
    <<359, 100, 100>>,  \* brightest: pitch above the piano range before the clamp
    <<0, 0, 0>> }       \* black: all components zero

ImagePaths == {"", "in.png"}
OutputPaths == {"", "out.mid"}

(* --------------------------- pure functions --------------------------- *)

Abs(n) == IF n < 0 THEN -n ELSE n
Max(a, b) == IF a >= b THEN a ELSE b
Min(a, b) == IF a <= b THEN a ELSE b

\* int(): truncation toward zero of the quotient num / den, den > 0
TruncDiv(num, den) == IF num >= 0 THEN num \div den ELSE -((-num) \div den)

hsv_to_midi_params_noclamp(h, s, v) ==
  << TruncDiv(21 * 3600 + (v * 7 * 36) * 12 + h * 12 * 10, 3600),
     TruncDiv(20 * 100 + s * 107, 100) >>

\* base_pitch = h/360*12, octave_shift = v/100*7, over the common denominator 3600
hsv_to_midi_params(h, s, v) ==
  LET pitch    == TruncDiv(21 * 3600 + (v * 7 * 36) * 12 + h * 12 * 10, 3600)
      velocity == TruncDiv(20 * 100 + s * 107, 100)
  IN  << Max(21, Min(108, pitch)), Max(20, Min(127, velocity)) >>

colors_are_close_noabs(hsv1, hsv2) ==
  LET d0 == hsv1[1] - hsv2[1]
      hue_diff == IF d0 > 180 THEN 360 - d0 ELSE d0
  IN  /\ hue_diff <= threshold_h
      /\ Abs(hsv1[2] - hsv2[2]) <= threshold_s
      /\ Abs(hsv1[3] - hsv2[3]) <= threshold_v

colors_are_close(hsv1, hsv2) ==
  LET d0 == Abs(hsv1[1] - hsv2[1])
      hue_diff == IF d0 > 180 THEN 360 - d0 ELSE d0
  IN  /\ hue_diff <= threshold_h
      /\ Abs(hsv1[2] - hsv2[2]) <= threshold_s
      /\ Abs(hsv1[3] - hsv2[3]) <= threshold_v

\* truth value of prev_hsv in "if prev_hsv and ...": None is false, a 3-tuple is true
Truthy(hsv) == hsv # NoHsv

\* the loops of extract_hsv_data: columns outer, rows inner, transparent skipped
extract_hsv_data(img) ==
  LET all == [k \in 1..(GridW * GridH) |->
                LET x == (k - 1) \div GridH
                    y == (k - 1) % GridH
                    p == img[<<x, y>>]
                IN  <<x, y, p.h, p.s, p.v, p.a>>]
      opaque(e) == ~(e[6] < alpha_threshold)
      kept == SelectSeq(all, opaque)
  IN  [k \in 1..Len(kept) |-> <<kept[k][1], kept[k][2], kept[k][3], kept[k][4], kept[k][5]>>]

Hsv(sample) == <<sample[3], sample[4], sample[5]>>

(* ------------------------------- state -------------------------------- *)

VARIABLES
  pc,                    \* position in main() / create_midi_from_colors()
  image,                 \* the resized RGBA image behind image_path
  image_path,            \* result of select_image()
  output_path,           \* result of save_midi_dialog()
  color_data,            \* samples <<x, y, h, s, v>>
  i,                     \* samples consumed by the loop
  current_time, prev_hsv, note_start_time,
  current_pitch, current_velocity, accumulated_duration,
  midi,                  \* the addNote calls, in order
  open_calls,            \* Image.open attempts
  write_calls,           \* open(output_path, "wb") attempts
  file_written,          \* the MIDI file was saved (line 189 reached)
  stdout, stderr,        \* messages printed
  exit_status            \* None while running

vars == << pc, image, image_path, output_path, color_data, i, current_time,
           prev_hsv, note_start_time, current_pitch, current_velocity,
           accumulated_duration, midi, open_calls, write_calls, file_written,
           stdout, stderr, exit_status >>

locals == << i, current_time, prev_hsv, note_start_time, current_pitch,
             current_velocity, accumulated_duration >>

Grid == (0..(GridW - 1)) \X (0..(GridH - 1))

InitLocals ==
  /\ i = 0
  /\ current_time = 0
  /\ prev_hsv = NoHsv
  /\ note_start_time = 0
  /\ current_pitch = None
  /\ current_velocity = None
  /\ accumulated_duration = 0

InitCommon ==
  /\ InitLocals
  /\ midi = << >>
  /\ open_calls = 0
  /\ write_calls = 0
  /\ file_written = FALSE
  /\ stderr = << >>
  /\ exit_status = None

\* the program at the start of main()
Init ==
  /\ pc = "select_image"
  /\ image \in [Grid -> Pixels]
  /\ image_path = Unset
  /\ output_path = Unset
  /\ color_data = << >>
  /\ stdout = << >>
  /\ InitCommon

SeqsUpTo(S, n) == UNION { [1..k -> S] : k \in 0..n }

\* the program at the call of create_midi_from_colors, on any sample sequence
InitSeq ==
  /\ pc = "create"
  /\ image = << >>
  /\ image_path = "in.png"
  /\ output_path = "out.mid"
  /\ \E d \in SeqsUpTo(Samples, MaxLen) :
       color_data = [k \in 1..Len(d) |-> <<0, k - 1, d[k][1], d[k][2], d[k][3]>>]
  /\ stdout = <<"Selected", "Image">>
  /\ open_calls = 1
  /\ InitLocals
  /\ midi = << >>
  /\ write_calls = 0
  /\ file_written = FALSE
  /\ stderr = << >>
  /\ exit_status = None

Exit(code) ==
  /\ pc' = "exited"
  /\ exit_status' = code

(* ------------------------------ actions ------------------------------- *)

\* main(), lines 197-208
SelectImage ==
  /\ pc = "select_image"
  /\ \E p \in ImagePaths :
       /\ image_path' = p
       /\ IF p = ""
            THEN /\ stdout' = Append(stdout, "NoFileSelected")
                 /\ Exit(0)
            ELSE /\ stdout' = Append(stdout, "Selected")
                 /\ pc' = "extract"
                 /\ UNCHANGED exit_status
  /\ UNCHANGED << image, output_path, color_data, locals, midi, open_calls,
                  write_calls, file_written, stderr >>

\* main(), lines 211-214, with extract_hsv_data; Image.open succeeds or raises
ExtractHsvData ==
  /\ pc = "extract"
  /\ open_calls' = open_calls + 1
  /\ \E ok \in BOOLEAN :
       IF ok
         THEN /\ color_data' = extract_hsv_data(image)
              /\ stdout' = Append(stdout, "Image")
              /\ pc' = "save_dialog"
              /\ UNCHANGED << stderr, exit_status >>
         ELSE /\ stderr' = Append(stderr, "ErrorOpeningImage")
              /\ Exit(1)
              /\ UNCHANGED << color_data, stdout >>
  /\ UNCHANGED << image, image_path, output_path, locals, midi, write_calls,
                  file_written >>

SaveMidiDialog_nocheck ==
  /\ pc = "save_dialog"
  /\ \E p \in OutputPaths :
       /\ output_path' = p
       /\ pc' = "create"
  /\ UNCHANGED << image, image_path, color_data, locals, midi, open_calls,
                  write_calls, file_written, stdout, stderr, exit_status >>

\* main(), lines 217-220
SaveMidiDialog ==
  /\ pc = "save_dialog"
  /\ \E p \in OutputPaths :
       /\ output_path' = p
       /\ IF p = ""
            THEN /\ stdout' = Append(stdout, "NoOutputSelected")
                 /\ Exit(0)
            ELSE /\ pc' = "create"
                 /\ UNCHANGED << stdout, exit_status >>
  /\ UNCHANGED << image, image_path, color_data, locals, midi, open_calls,
                  write_calls, file_written, stderr >>

EnterLoop ==
  /\ i' = 0
  /\ current_time' = 0
  /\ prev_hsv' = NoHsv
  /\ note_start_time' = 0
  /\ current_pitch' = None
  /\ current_velocity' = None
  /\ accumulated_duration' = 0
  /\ stdout' = Append(stdout, "Converting")
  /\ pc' = "loop"

CreateBegin_noguard ==
  /\ pc = "create"
  /\ EnterLoop
  /\ UNCHANGED << image, image_path, output_path, color_data, midi, open_calls,
                  write_calls, file_written, stderr, exit_status >>

\* create_midi_from_colors, lines 131-152
CreateBegin ==
  /\ pc = "create"
  /\ IF color_data = << >>
       THEN /\ stdout' = Append(stdout, "NoColorData")
            /\ pc' = "main_done"
            /\ UNCHANGED locals
       ELSE EnterLoop
  /\ UNCHANGED << image, image_path, output_path, color_data, midi, open_calls,
                  write_calls, file_written, stderr, exit_status >>

Note(p, t, d, vel) == [pitch |-> p, time |-> t, duration |-> d, velocity |-> vel]

Progress(n) ==
  IF n % progress_every = 0 THEN Append(stdout, "Processed") ELSE stdout

LoopFrame ==
  UNCHANGED << pc, image, image_path, output_path, color_data, open_calls,
               write_calls, file_written, stderr, exit_status >>

\* The loop iteration with one statement changed:
\*   "no_extend"   the merge branch does not add to accumulated_duration
\*   "late_start"  note_start_time is taken after current_time has advanced
\*   "repitch"     the merge branch takes the current sample's pitch and velocity
\*   "run_start"   prev_hsv is only set when a note starts
\*   "stall_clock" current_time only advances when a note starts
LoopStepVariant(variant) ==
  /\ pc = "loop"
  /\ i < Len(color_data)
  /\ LET hsv == Hsv(color_data[i + 1])
         pv  == hsv_to_midi_params(hsv[1], hsv[2], hsv[3])
         ext == Truthy(prev_hsv) /\ colors_are_close(hsv, prev_hsv)
     IN  /\ IF ext
              THEN /\ accumulated_duration' =
                        IF variant = "no_extend" THEN accumulated_duration
                        ELSE accumulated_duration + eighth_note
                   /\ current_pitch' = IF variant = "repitch" THEN pv[1] ELSE current_pitch
                   /\ current_velocity' =
                        IF variant = "repitch" THEN pv[2] ELSE current_velocity
                   /\ UNCHANGED << midi, note_start_time >>
              ELSE /\ midi' = IF current_pitch # None
                                THEN Append(midi, Note(current_pitch, note_start_time,
                                                       accumulated_duration,
                                                       current_velocity))
                                ELSE midi
                   /\ note_start_time' =
                        IF variant = "late_start" THEN current_time + eighth_note
                        ELSE current_time
                   /\ current_pitch' = pv[1]
                   /\ current_velocity' = pv[2]
                   /\ accumulated_duration' = eighth_note
         /\ prev_hsv' = IF variant = "run_start" /\ ext THEN prev_hsv ELSE hsv
         /\ current_time' = IF variant = "stall_clock" /\ ext THEN current_time
                            ELSE current_time + eighth_note
  /\ stdout' = Progress(i + 1)
  /\ i' = i + 1
  /\ LoopFrame

LoopStep_no_extend   == LoopStepVariant("no_extend")
LoopStep_late_start  == LoopStepVariant("late_start")
LoopStep_repitch     == LoopStepVariant("repitch")
LoopStep_run_start   == LoopStepVariant("run_start")
LoopStep_stall_clock == LoopStepVariant("stall_clock")

\* one iteration of the for loop, lines 154-178
LoopStep ==
  /\ pc = "loop"
  /\ i < Len(color_data)
  /\ LET hsv == Hsv(color_data[i + 1])
         pv  == hsv_to_midi_params(hsv[1], hsv[2], hsv[3])
     IN  /\ IF Truthy(prev_hsv) /\ colors_are_close(hsv, prev_hsv)
              THEN /\ accumulated_duration' = accumulated_duration + eighth_note
                   /\ UNCHANGED << midi, note_start_time, current_pitch,
                                   current_velocity >>
              ELSE /\ midi' = IF current_pitch # None
                                THEN Append(midi, Note(current_pitch, note_start_time,
                                                       accumulated_duration,
                                                       current_velocity))
                                ELSE midi
                   /\ note_start_time' = current_time
                   /\ current_pitch' = pv[1]
                   /\ current_velocity' = pv[2]
                   /\ accumulated_duration' = eighth_note
         /\ prev_hsv' = hsv
  /\ current_time' = current_time + eighth_note
  /\ stdout' = Progress(i + 1)
  /\ i' = i + 1
  /\ LoopFrame

\* the final note, lines 181-183
Flush ==
  /\ pc = "loop"
  /\ i = Len(color_data)
  /\ midi' = IF current_pitch # None
               THEN Append(midi, Note(current_pitch, note_start_time,
                                      accumulated_duration, current_velocity))
               ELSE midi
  /\ pc' = "write"
  /\ UNCHANGED << image, image_path, output_path, color_data, locals, open_calls,
                  write_calls, file_written, stdout, stderr, exit_status >>

\* the write with the exception swallowed: main() goes on to its last line
WriteFile_swallow ==
  /\ pc = "write"
  /\ write_calls' = write_calls + 1
  /\ \E ok \in BOOLEAN :
       IF ok
         THEN /\ file_written' = TRUE
              /\ stdout' = Append(stdout, "Saved")
              /\ UNCHANGED stderr
         ELSE /\ stderr' = Append(stderr, "ErrorSavingMidi")
              /\ UNCHANGED << file_written, stdout >>
  /\ pc' = "main_done"
  /\ UNCHANGED << image, image_path, output_path, color_data, locals, midi,
                  open_calls, exit_status >>

\* lines 186-193; opening or writing the destination succeeds or raises
WriteFile ==
  /\ pc = "write"
  /\ write_calls' = write_calls + 1
  /\ \E ok \in BOOLEAN :
       IF ok
         THEN /\ file_written' = TRUE
              /\ stdout' = Append(stdout, "Saved")
              /\ pc' = "main_done"
              /\ UNCHANGED << stderr, exit_status >>
         ELSE /\ stderr' = Append(stderr, "ErrorSavingMidi")
              /\ Exit(1)
              /\ UNCHANGED << file_written, stdout >>
  /\ UNCHANGED << image, image_path, output_path, color_data, locals, midi,
                  open_calls >>

\* main(), line 225, and the normal end of the process
MainDone ==
  /\ pc = "main_done"
  /\ stdout' = Append(stdout, "Done")
  /\ Exit(0)
  /\ UNCHANGED << image, image_path, output_path, color_data, locals, midi,
                  open_calls, write_calls, file_written, stderr >>

Next ==
  \/ SelectImage
  \/ ExtractHsvData
  \/ SaveMidiDialog
  \/ CreateBegin
  \/ LoopStep
  \/ Flush
  \/ WriteFile
  \/ MainDone

\* the whole program
Spec == Init /\ [][Next]_vars

NextSeq == CreateBegin \/ LoopStep \/ Flush \/ WriteFile \/ MainDone

\* create_midi_from_colors on every sample sequence up to MaxLen
SpecSeq == InitSeq /\ [][NextSeq]_vars

(* ------------------------------ properties ---------------------------- *)

InSeq(x, s) == \E k \in 1..Len(s) : s[k] = x

RECURSIVE SumDur(_)
SumDur(notes) ==
  IF notes = << >> THEN 0 ELSE Head(notes).duration + SumDur(Tail(notes))

\* create_midi_from_colors has consumed a non-empty sequence and flushed
Sequenced == pc \in {"write", "main_done", "exited"} /\ Len(color_data) >= 1

InRange(sample) ==
  /\ sample[3] >= 0 /\ sample[3] < 360
  /\ sample[4] >= 0 /\ sample[4] <= 100
  /\ sample[5] >= 0 /\ sample[5] <= 100

\* C1: with every sample's hue in [0,360) and saturation and value in [0,100],
\* every note added has a pitch in 21..108 and a velocity in 20..127.
C1_NotesInRange ==
  (\A k \in 1..Len(color_data) : InRange(color_data[k]))
    => \A n \in 1..Len(midi) :
         /\ midi[n].pitch \in 21..108
         /\ midi[n].velocity \in 20..127

\* a note at the top of both ranges whose sample maps above 108 before the clamp
C1_Witness ==
  /\ Sequenced
  /\ \E n \in 1..Len(midi) :
       LET smp == color_data[midi[n].time \div eighth_note + 1]
       IN  /\ midi[n].pitch = 108
           /\ midi[n].velocity = 127
           /\ hsv_to_midi_params_noclamp(smp[3], smp[4], smp[5])[1] > 108

\* C2: for a non-empty sequence of N samples the durations of all notes added,
\* the flushed one included, sum to N * eighth_note.
C2_TotalDuration ==
  Sequenced => SumDur(midi) = Len(color_data) * eighth_note

\* three or more samples, some merged and some not
C2_Witness ==
  /\ Sequenced
  /\ Len(color_data) >= 3
  /\ Len(midi) >= 2
  /\ Len(midi) < Len(color_data)

\* C3: the notes added start at beat 0 and each starts where its predecessor
\* ends, so start times strictly increase without gap or overlap.
C3_Contiguous ==
  /\ midi # << >> => midi[1].time = 0
  /\ \A n \in 1..(Len(midi) - 1) :
       /\ midi[n].time + midi[n].duration = midi[n + 1].time
       /\ midi[n].time < midi[n + 1].time

\* three notes, one of them longer than a step
C3_Witness ==
  /\ Sequenced
  /\ Len(midi) >= 3
  /\ \E n \in 1..Len(midi) : midi[n].duration > eighth_note

\* the sample at which the note starting at time t began
SampleAt(t) == color_data[t \div eighth_note + 1]

\* C4: every note (added or in progress) carries the pitch and velocity that
\* hsv_to_midi_params gives for the first sample of its run; merged samples
\* do not change them.
C4_RunStartPitch ==
  /\ \A n \in 1..Len(midi) :
       <<midi[n].pitch, midi[n].velocity>> =
         hsv_to_midi_params(SampleAt(midi[n].time)[3], SampleAt(midi[n].time)[4],
                            SampleAt(midi[n].time)[5])
  /\ (pc = "loop" /\ i >= 1) =>
       <<current_pitch, current_velocity>> =
         hsv_to_midi_params(SampleAt(note_start_time)[3], SampleAt(note_start_time)[4],
                            SampleAt(note_start_time)[5])

\* a merged note whose second sample maps to another pitch and velocity
C4_Witness ==
  /\ Sequenced
  /\ \E n \in 1..Len(midi) :
       LET second == SampleAt(midi[n].time + eighth_note)
           pv == hsv_to_midi_params(second[3], second[4], second[5])
       IN  /\ midi[n].duration >= 2 * eighth_note
           /\ pv[1] # midi[n].pitch
           /\ pv[2] # midi[n].velocity

\* positions where a run starts: the first, and every sample not close to
\* its immediate predecessor
Breaks ==
  {1} \cup { k \in 2..Len(color_data) :
               ~colors_are_close(Hsv(color_data[k]), Hsv(color_data[k - 1])) }

NthBreak(n) == CHOOSE b \in Breaks : Cardinality({ c \in Breaks : c < b }) = n - 1

RunEnd(n) == IF n = Cardinality(Breaks) THEN Len(color_data) + 1 ELSE NthBreak(n + 1)

\* C5: for a non-empty sequence the notes are the runs of the relation
\* "close to the immediately preceding sample": their number is 1 plus the
\* number of positions not close to their predecessor, and the n-th note
\* lasts eighth_note times the length of the n-th run.
C5_RunLengthEncoding ==
  Sequenced =>
    /\ Len(midi) = Cardinality(Breaks)
    /\ \A n \in 1..Len(midi) :
         midi[n].duration = eighth_note * (RunEnd(n) - NthBreak(n))

\* one note for three or more samples whose last is not close to the first
C5_Witness ==
  /\ Sequenced
  /\ Len(color_data) >= 3
  /\ Len(midi) = 1
  /\ ~colors_are_close(Hsv(color_data[Len(color_data)]), Hsv(color_data[1]))

OneNotePerSample ==
  /\ Len(midi) = Len(color_data)
  /\ \A n \in 1..Len(midi) : midi[n].duration = eighth_note

\* C6 as stated: samples whose hues differ pairwise by more than 15 degrees
\* (as numbers in [0,360)) give one note of one step per sample.
C6_RawHueNoMerge ==
  (Sequenced /\ \A a, b \in 1..Len(color_data) :
                  a # b => Abs(color_data[a][3] - color_data[b][3]) > threshold_h)
    => OneNotePerSample

\* distance of two hues around the 360 degree circle
CircDist(h1, h2) == Min(Abs(h1 - h2), 360 - Abs(h1 - h2))

\* C6 amended: samples whose hues are pairwise more than 15 degrees apart
\* around the hue circle give one note of one step per sample.
C6_CircularHueNoMerge ==
  (Sequenced /\ \A a, b \in 1..Len(color_data) :
                  a # b => CircDist(color_data[a][3], color_data[b][3]) > threshold_h)
    => OneNotePerSample

\* three samples apart in hue only: saturation and value are within threshold
C6_Witness ==
  /\ Sequenced
  /\ Len(color_data) >= 3
  /\ \A a, b \in 1..Len(color_data) :
       a # b => /\ CircDist(color_data[a][3], color_data[b][3]) > threshold_h
                /\ Abs(color_data[a][4] - color_data[b][4]) <= threshold_s
                /\ Abs(color_data[a][5] - color_data[b][5]) <= threshold_v
  /\ OneNotePerSample

\* C7: when sampling left no sample, no note is added, the loop and the write
\* are never entered, no file is written, and once create_midi_from_colors
\* has been called with the chosen path it has reported that there is
\* nothing to convert.
C7_EmptyInput ==
  (InSeq("Image", stdout) /\ color_data = << >>) =>
    /\ midi = << >>
    /\ write_calls = 0
    /\ ~file_written
    /\ pc \notin {"loop", "write"}
    /\ (output_path \notin {Unset, ""} /\ pc \in {"main_done", "exited"})
         => InSeq("NoColorData", stdout)
    /\ exit_status # None => exit_status = 0

\* an image without an opaque pixel, a chosen path, the run ended
C7_Witness ==
  /\ pc = "exited"
  /\ open_calls = 1
  /\ InSeq("Image", stdout)
  /\ color_data = << >>
  /\ output_path = "out.mid"
  /\ InSeq("NoColorData", stdout)
  /\ ~file_written

\* C8: a cancelled prompt ends the run with status 0 and no file: at the
\* open prompt before Image.open and sampling, at the save prompt before
\* any note is sequenced or the destination is opened.
C8_Cancelled ==
  /\ image_path = "" =>
       /\ pc = "exited" /\ exit_status = 0
       /\ open_calls = 0 /\ color_data = << >> /\ output_path = Unset
       /\ midi = << >> /\ write_calls = 0 /\ ~file_written
  /\ output_path = "" =>
       /\ pc = "exited" /\ exit_status = 0
       /\ i = 0 /\ current_pitch = None /\ midi = << >>
       /\ write_calls = 0 /\ ~file_written

\* the save prompt cancelled after samples were extracted
C8_Witness ==
  /\ output_path = ""
  /\ color_data # << >>
  /\ exit_status = 0

\* C9: a failure ends the run with status 1 and nothing is retried: a failed
\* Image.open leaves no sample, no save prompt and no note; a failed write
\* comes after sequencing and the last line of main() is not reached.
C9_Fatal ==
  /\ InSeq("ErrorOpeningImage", stderr) =>
       /\ pc = "exited" /\ exit_status = 1
       /\ color_data = << >> /\ output_path = Unset /\ midi = << >>
       /\ ~file_written
  /\ InSeq("ErrorSavingMidi", stderr) =>
       /\ pc = "exited" /\ exit_status = 1
       /\ i = Len(color_data) /\ midi # << >>
       /\ ~InSeq("Done", stdout)
  /\ open_calls <= 1 /\ write_calls <= 1 /\ Len(stderr) <= 1
  /\ exit_status # None => ~ENABLED Next

\* the destination could not be written after notes were sequenced
C9_Witness ==
  /\ InSeq("ErrorSavingMidi", stderr)
  /\ exit_status = 1
  /\ Len(midi) >= 2

\* C10: after k >= 1 iterations current_time is k steps, a note is in
\* progress, its accumulated_duration is a positive multiple of the step and
\* it ends at current_time; every note added lasts a positive multiple of
\* the step.
C10_LoopInvariant ==
  /\ (pc = "loop" /\ i >= 1) =>
       /\ current_time = i * eighth_note
       /\ current_pitch # None /\ current_velocity # None
       /\ accumulated_duration >= eighth_note
       /\ accumulated_duration % eighth_note = 0
       /\ note_start_time + accumulated_duration = current_time
  /\ \A n \in 1..Len(midi) :
       /\ midi[n].duration >= eighth_note
       /\ midi[n].duration % eighth_note = 0

\* in the loop, a note added and a merged note in progress
C10_Witness ==
  /\ pc = "loop"
  /\ i >= 3
  /\ midi # << >>
  /\ accumulated_duration >= 2 * eighth_note

=============================================================================
